---- MODULE Spec2Model ----
(***************************************************************************)
(* A model of Ewoms::EclWellManager                                        *)
(* (applications/ebos/eclwellmanager.hh): the well collection, the         *)
(* DOF-to-well association, the auxiliary-module registry of the global    *)
(* model and the per-episode resolution of the well controls.              *)
(*                                                                         *)
(* The schedule is read by report step.  The code reads, at report step t, *)
(* the wells of step t and the NAMES of the wells of step t-1 only, so the *)
(* state keeps the description of the current and of the previous step;    *)
(* the description of a step is drawn when the simulator enters it.        *)
(***************************************************************************)
EXTENDS Integers, Sequences, FiniteSets, TLC

(***************************************************************************)
(* Bounds of the model.                                                    *)
(***************************************************************************)
NX == 2
NY == 2
NZ == 1
\* completions declared in one report step, over all wells
MaxCompletions == 2
\* the report steps are 0 .. LastReportStep
LastReportStep == 1

WellNames == {"A", "B"}

VARIABLES
    ndebug,          \* the build: TRUE when assert() is compiled out (NDEBUG)
    allDeckWells,    \* deckSchedule->getWells(): the names init() walks
    interior,        \* the elements whose partitionType() is InteriorEntity
    episodeIdx,      \* simulator_.episodeIndex()
    scheduleWells,      \* deckSchedule->getWells(episodeIdx), with the declarations
    schedulePrevWells,  \* deckSchedule->getWells(episodeIdx - 1)
    wells_,          \* std::vector<std::shared_ptr<Well> >
    wellNameToIndex_,\* std::map<std::string, int>
    auxiliaryModules,\* the model's registry: well index -> times registered
    pc,              \* where the simulator is in the manager's life cycle
    lastCall,        \* what the last call of a manager method did
    failure,         \* the fatal error that ended the run, if any
    hooks,           \* the calls the last broadcast made to the wells, in order
    q,               \* RateVector &q of the last computeTotalRatesForDof
    lookup           \* what the last wellIndex(name) or well(name) gave

vars == <<ndebug, allDeckWells, interior, episodeIdx, scheduleWells, schedulePrevWells,
          wells_, wellNameToIndex_, auxiliaryModules, pc, lastCall, failure,
          hooks, q, lookup>>

(***************************************************************************)
(* Helpers on sequences and functions.                                     *)
(***************************************************************************)
Range(s) == {s[n] : n \in DOMAIN s}

\* the sequences over S of length at most n in which no element repeats
DistinctSeqs(S, n) ==
    UNION {{s \in [1..l -> S] : \A a, b \in 1..l : a # b => s[a] # s[b]} : l \in 0..n}

RECURSIVE SumLen(_, _)
SumLen(f, n) == IF n = 0 THEN 0 ELSE Len(f[n]) + SumLen(f, n - 1)

(***************************************************************************)
(* The grid: one element per logically Cartesian cell, one primary DOF per *)
(* element.  cartesianCellId is the grid manager's table from the global   *)
(* DOF index to the logically Cartesian index; it is not the identity.     *)
(***************************************************************************)
NumCells == NX * NY * NZ
GlobalDofs == 0 .. (NumCells - 1)
cartesianCellId == [g \in GlobalDofs |-> NumCells - 1 - g]
\* the elements in the order of the grid view's iterator
Elements == [e \in 1..NumCells |-> [index |-> e - 1, dofs |-> <<e - 1>>]]

(***************************************************************************)
(* The schedule.  A completion carries its logical coordinates, its        *)
(* diameter (possibly undefined) and its connection transmissibility       *)
(* factor (a Scalar: possibly NaN, infinite, or not positive).             *)
(***************************************************************************)
Coords == {<<i, j, k>> : i \in 0..(NX - 1), j \in 0..(NY - 1), k \in 0..(NZ - 1)}

Completion(c, diam, ctf) ==
    [I |-> c[1], J |-> c[2], K |-> c[3], diameter |-> diam, ctf |-> ctf]

InjectorTypes == {"WATER", "GAS", "OIL", "MULTI"}
InjectorCModes == {"RATE", "RESV", "BHP", "THP", "GRUP", "CMODE_UNDEFINED"}
ProducerCModes == {"ORAT", "GRAT", "WRAT", "LRAT", "CRAT", "RESV", "BHP", "THP",
                   "GRUP", "CMODE_UNDEFINED"}
StatusEnum == {"AUTO", "OPEN", "STOP", "SHUT"}

\* Opm::WellInjectionProperties of a well whose declared rates start at base
InjectionProperties(type, cmode, base) ==
    [injectorType |-> type, controlMode |-> cmode,
     surfaceInjectionRate |-> base + 1, reservoirInjectionRate |-> base + 2,
     BHPLimit |-> base + 3]

\* Opm::WellProductionProperties of a well whose declared rates start at base
ProductionProperties(cmode, base) ==
    [controlMode |-> cmode,
     OilRate |-> base + 4, GasRate |-> base + 5, WaterRate |-> base + 6,
     LiquidRate |-> base + 7, ResVRate |-> base + 8, BHPLimit |-> base + 9]

\* the declaration of one well for one report step
DeckWell(name, completions, status, isInj, isProd, inj, prod, depthDefaulted, depth) ==
    [name |-> name, completions |-> completions, status |-> status,
     isInjector |-> isInj, isProducer |-> isProd,
     injectionProperties |-> inj, productionProperties |-> prod,
     refDepthDefaulted |-> depthDefaulted, refDepth |-> depth]

(***************************************************************************)
(* The Well object (Ewoms::EclPeacemanWell): its fields as the manager     *)
(* sets them.  dofs is the sequence of the DOFs registered by addDof, in   *)
(* the order of registration; radius and ctf hold the per-DOF overrides.   *)
(***************************************************************************)
NoOverrides == [d \in {} |-> 0]

NewWell(wellName) ==
    [name |-> wellName,
     wellStatus |-> "Undefined", wellType |-> "Undefined",
     controlMode |-> "Undefined",
     volumetricWeights |-> [oil |-> 0, gas |-> 0, water |-> 0],
     injectedPhaseIndex |-> "Undefined",
     maximumSurfaceRate |-> -1, maximumReservoirRate |-> -1,
     targetBottomHolePressure |-> -1, targetTubingHeadPressure |-> "Undefined",
     referenceDepth |-> -1,
     dofs |-> <<>>, radius |-> NoOverrides, ctf |-> NoOverrides]

\* Well::clear(): the well owns no DOF any more
Well_clear(well) ==
    [well EXCEPT !.dofs = <<>>, !.radius = NoOverrides, !.ctf = NoOverrides]

\* Well::addDof(): the DOF is registered with the well
Well_addDof(well, globalDofIdx) ==
    [well EXCEPT !.dofs = Append(@, globalDofIdx)]

\* Well::setRadius()
Well_setRadius(well, globalDofIdx, value) ==
    [well EXCEPT !.radius =
        [d \in (DOMAIN @) \cup {globalDofIdx} |-> IF d = globalDofIdx THEN value ELSE @[d]]]

\* Well::setConnectionTransmissibilityFactor()
Well_setConnectionTransmissibilityFactor(well, globalDofIdx, value) ==
    [well EXCEPT !.ctf =
        [d \in (DOMAIN @) \cup {globalDofIdx} |-> IF d = globalDofIdx THEN value ELSE @[d]]]

(***************************************************************************)
(* Fatal errors.  kind is the violated condition; named tells whether the  *)
(* message carries the name of the well.                                   *)
(***************************************************************************)
NoFailure == [kind |-> "none", well |-> "", named |-> FALSE]
Failure(kind, wellName, named) == [kind |-> kind, well |-> wellName, named |-> named]

(***************************************************************************)
(* Lookups.                                                                *)
(***************************************************************************)
hasWell(nameToIndex, wellName) == wellName \in DOMAIN nameToIndex

\* a variant that reads the map with operator[]: a name that is not in the
\* map gets the index 0 and no exception
wellIndex_defaultZero(nameToIndex, wellName) ==
    IF wellName \in DOMAIN nameToIndex
    THEN [ok |-> TRUE, index |-> nameToIndex[wellName]]
    ELSE [ok |-> TRUE, index |-> 0]

\* wellIndex(): the index, or the runtime_error "No well called ... found"
wellIndex(nameToIndex, wellName) ==
    IF wellName \in DOMAIN nameToIndex
    THEN [ok |-> TRUE, index |-> nameToIndex[wellName]]
    ELSE [ok |-> FALSE, index |-> -1]

(***************************************************************************)
(* computeWellCompletionsMap_                                              *)
(***************************************************************************)
EmptyCompletionsMap == [c \in {} |-> 0]

cartIdx(completion) == completion.I + completion.J * NX + completion.K * NX * NY

\* cartesianIdxToCompletionMap[cartIdx] = std::make_pair(&(*completion), eclWell)
MapInsert(map, key, completion, eclWell) ==
    [c \in (DOMAIN map) \cup {key} |->
        IF c = key THEN [completion |-> completion, well |-> eclWell] ELSE map[c]]

\* a variant that asks the previous step for the previous completions
prevCompletionsStep_previous(reportStepIdx) == reportStepIdx - 1

\* a variant that compares the number of wells only
wellTopologyChanged_countOnly(curDeckWells, prevWells, reportStepIdx) ==
    IF reportStepIdx = 0 THEN TRUE ELSE Len(curDeckWells) # Len(prevWells)

\* a variant without the special case of the first report step
wellTopologyChanged_noFirstStep(curDeckWells, prevWells, reportStepIdx) ==
    IF Len(curDeckWells) # Len(prevWells) THEN TRUE
    ELSE \E curWellIdx \in DOMAIN curDeckWells :
             \A p \in DOMAIN prevWells : prevWells[p].name # curDeckWells[curWellIdx].name

\* the assert() of line 613: in a build with assertions, a key that is
\* already present aborts the program; with NDEBUG the check is not there
DuplicateKeyAborts(nd, map, key) == ~nd /\ key \in DOMAIN map

RECURSIVE InsertCompletions(_, _, _, _, _)
InsertCompletions(nd, res, completionSet, complIdx, eclWell) ==
    IF ~res.ok \/ complIdx > Len(completionSet) THEN res
    ELSE LET completion == completionSet[complIdx]
             key == cartIdx(completion)
         IN  IF DuplicateKeyAborts(nd, res.map, key)
             THEN [res EXCEPT !.ok = FALSE]
             ELSE InsertCompletions(nd,
                      [ok |-> TRUE, map |-> MapInsert(res.map, key, completion, eclWell)],
                      completionSet, complIdx + 1, eclWell)

RECURSIVE MapDeckWells(_, _, _, _, _)
MapDeckWells(nd, nameToIndex, curDeckWells, deckWellIdx, res) ==
    IF ~res.ok \/ deckWellIdx > Len(curDeckWells) THEN res
    ELSE LET deckWell == curDeckWells[deckWellIdx]
         IN  IF ~hasWell(nameToIndex, deckWell.name)
             THEN \* "suddenly appears in the completions ... Ignoring."
                  MapDeckWells(nd, nameToIndex, curDeckWells, deckWellIdx + 1, res)
             ELSE MapDeckWells(nd, nameToIndex, curDeckWells, deckWellIdx + 1,
                      InsertCompletions(nd, res, deckWell.completions, 1,
                                        wellIndex(nameToIndex, deckWell.name).index))

\* the result: ok = FALSE when the assert() aborted the program
computeWellCompletionsMap_(nd, nameToIndex, curDeckWells) ==
    MapDeckWells(nd, nameToIndex, curDeckWells, 1,
                 [ok |-> TRUE, map |-> EmptyCompletionsMap])

(***************************************************************************)
(* wellTopologyChanged_                                                    *)
(***************************************************************************)
\* Opm::Well::getCompletions(step) of the well object called wellName: the
\* schedule has one well object per name, which answers for every step
getCompletions(curDeckWells, prevWells, reportStepIdx, wellName, step) ==
    LET at == IF step = reportStepIdx THEN curDeckWells ELSE prevWells
        n == CHOOSE m \in DOMAIN at : at[m].name = wellName
    IN  at[n].completions

\* the step the completions of the previous well are asked for (line 502)
prevCompletionsStep(reportStepIdx) == reportStepIdx

\* the inner loop, lines 514-527: TRUE when the loop leaves by break
RECURSIVE CompletionFound(_, _, _, _)
CompletionFound(curCompletionSet, prevCompletionSet, curWellComplIdx, prevWellComplIdx) ==
    IF prevWellComplIdx = Len(prevCompletionSet) + 1
    THEN FALSE
    ELSE LET curCompletion == curCompletionSet[curWellComplIdx]
             prevCompletion == prevCompletionSet[curWellComplIdx]
         IN  IF /\ curCompletion.I = prevCompletion.I
                /\ curCompletion.J = prevCompletion.J
                /\ curCompletion.K = prevCompletion.K
             THEN TRUE
             ELSE CompletionFound(curCompletionSet, prevCompletionSet,
                                  curWellComplIdx, prevWellComplIdx + 1)

\* lines 484-529 for one current well: TRUE when the loop body returns true
CurWellChanged(curDeckWells, prevWells, reportStepIdx, curWell) ==
    IF \A p \in DOMAIN prevWells : prevWells[p].name # curWell.name
    THEN TRUE
    ELSE LET curCompletionSet ==
                 getCompletions(curDeckWells, prevWells, reportStepIdx,
                                curWell.name, reportStepIdx)
             prevCompletionSet ==
                 getCompletions(curDeckWells, prevWells, reportStepIdx,
                                curWell.name, prevCompletionsStep(reportStepIdx))
         IN  IF Len(curCompletionSet) # Len(prevCompletionSet)
             THEN TRUE
             ELSE \E curWellComplIdx \in 1..Len(curCompletionSet) :
                      ~CompletionFound(curCompletionSet, prevCompletionSet,
                                       curWellComplIdx, 1)

wellTopologyChanged_(curDeckWells, prevWells, reportStepIdx) ==
    IF reportStepIdx = 0 THEN TRUE
    ELSE IF Len(curDeckWells) # Len(prevWells) THEN TRUE
    ELSE \E curWellIdx \in DOMAIN curDeckWells :
             CurWellChanged(curDeckWells, prevWells, reportStepIdx,
                            curDeckWells[curWellIdx])

(***************************************************************************)
(* The walk over the grid shared by updateWellTopology_ and                *)
(* updateWellParameters_: the global indices of the primary DOFs of the    *)
(* interior elements, in the order the two loops visit them.               *)
(***************************************************************************)
\* every primary DOF with its element, in the order of the two nested loops
RECURSIVE WalkFrom(_)
WalkFrom(elemIdx) ==
    IF elemIdx > Len(Elements) THEN <<>>
    ELSE [d \in DOMAIN Elements[elemIdx].dofs |->
             [elem |-> Elements[elemIdx].index, dof |-> Elements[elemIdx].dofs[d]]]
         \o WalkFrom(elemIdx + 1)

Walk == WalkFrom(1)

\* the walk without the elements that are not InteriorEntity (continue)
InteriorDofs(inter) ==
    LET local == SelectSeq(Walk, LAMBDA v : v.elem \in inter)
    IN  [n \in DOMAIN local |-> local[n].dof]

\* the DOFs of a walk that are in a completed cell; the loops skip the
\* others (wellCompletions.count(cartesianDofIdx) == 0: continue)
CompletedDofs(wellCompletions, dofSeq) ==
    SelectSeq(dofSeq, LAMBDA g : cartesianCellId[g] \in DOMAIN wellCompletions)

(***************************************************************************)
(* updateWellTopology_                                                     *)
(***************************************************************************)
\* lines 558-571 over the DOFs of the walk: the wells after every addDof
RECURSIVE AddDofs(_, _, _, _)
AddDofs(ws, wellCompletions, dofSeq, n) ==
    IF n > Len(dofSeq) THEN ws
    ELSE LET globalDofIdx == dofSeq[n]
             cartesianDofIdx == cartesianCellId[globalDofIdx]
         IN  IF cartesianDofIdx \notin DOMAIN wellCompletions
             THEN AddDofs(ws, wellCompletions, dofSeq, n + 1)
             ELSE LET eclWell == wellCompletions[cartesianDofIdx].well
                  IN  AddDofs([ws EXCEPT ![eclWell + 1] = Well_addDof(@, globalDofIdx)],
                              wellCompletions, dofSeq, n + 1)

\* the std::set "wells" of line 551 once the walk is over
WellsWithDofs(wellCompletions, dofSeq) ==
    {wellCompletions[cartesianCellId[dofSeq[n]]].well :
        n \in {m \in DOMAIN dofSeq : cartesianCellId[dofSeq[m]] \in DOMAIN wellCompletions}}

\* a variant that clears only the wells the completions map has a cell for
updateWellTopology_clearsCompletedOnly(ws, wellCompletions, inter) ==
    LET completed == {wellCompletions[c].well : c \in DOMAIN wellCompletions}
        cleared == [w \in DOMAIN ws |->
                       IF (w - 1) \in completed THEN Well_clear(ws[w]) ELSE ws[w]]
        dofSeq == CompletedDofs(wellCompletions, InteriorDofs(inter))
        registered == WellsWithDofs(wellCompletions, dofSeq)
    IN  [wells |-> AddDofs(cleared, wellCompletions, dofSeq, 1),
         aux |-> [w \in 0..(Len(ws) - 1) |-> IF w \in registered THEN 1 ELSE 0]]

\* a variant that registers every well of the completions map, whether or
\* not a DOF of the local interior is in one of its cells
updateWellTopology_registerCompleted(ws, wellCompletions, inter) ==
    LET cleared == [w \in DOMAIN ws |-> Well_clear(ws[w])]
        dofSeq == CompletedDofs(wellCompletions, InteriorDofs(inter))
        registered == {wellCompletions[c].well : c \in DOMAIN wellCompletions}
    IN  [wells |-> AddDofs(cleared, wellCompletions, dofSeq, 1),
         aux |-> [w \in 0..(Len(ws) - 1) |-> IF w \in registered THEN 1 ELSE 0]]

\* a variant that does not clear the wells before the walk (lines 541-544)
updateWellTopology_noClear(ws, wellCompletions, inter) ==
    LET dofSeq == CompletedDofs(wellCompletions, InteriorDofs(inter))
        registered == WellsWithDofs(wellCompletions, dofSeq)
    IN  [wells |-> AddDofs(ws, wellCompletions, dofSeq, 1),
         aux |-> [w \in 0..(Len(ws) - 1) |-> IF w \in registered THEN 1 ELSE 0]]

\* the result: the wells and the registry of auxiliary modules of the model
updateWellTopology_(ws, wellCompletions, inter) ==
    LET cleared == [w \in DOMAIN ws |-> Well_clear(ws[w])]
        dofSeq == CompletedDofs(wellCompletions, InteriorDofs(inter))
        registered == WellsWithDofs(wellCompletions, dofSeq)
    IN  [wells |-> AddDofs(cleared, wellCompletions, dofSeq, 1),
         aux |-> [w \in 0..(Len(ws) - 1) |-> IF w \in registered THEN 1 ELSE 0]]

(***************************************************************************)
(* updateWellParameters_                                                   *)
(***************************************************************************)
\* lines 628-634: the reference depths; wellIndex() throws for a name the
\* manager does not know, and the wells set before it stay set
RECURSIVE SetReferenceDepths(_, _, _, _)
SetReferenceDepths(ws, nameToIndex, curDeckWells, deckWellIdx) ==
    IF deckWellIdx > Len(curDeckWells) THEN [wells |-> ws, failure |-> NoFailure]
    ELSE LET deckWell == curDeckWells[deckWellIdx]
             found == wellIndex(nameToIndex, deckWell.name)
         IN  IF deckWell.refDepthDefaulted
             THEN SetReferenceDepths(ws, nameToIndex, curDeckWells, deckWellIdx + 1)
             ELSE IF ~found.ok
                  THEN [wells |-> ws,
                        failure |-> Failure("no_well_called", deckWell.name, TRUE)]
                  ELSE SetReferenceDepths(
                           [ws EXCEPT ![found.index + 1].referenceDepth = deckWell.refDepth],
                           nameToIndex, curDeckWells, deckWellIdx + 1)

\* a variant without std::isfinite: "ctf > 0.0" is false for NaN and true
\* for +inf
ctfApplies_noFiniteCheck(ctf) == ctf.class # "nan" /\ ctf.value > 0

\* std::isfinite(ctf) && ctf > 0.0
ctfApplies(ctf) == ctf.class = "finite" /\ ctf.value > 0

\* lines 660-687 for one DOF of a completed cell
ApplyCompletion(well, globalDofIdx, completion) ==
    LET w1 == IF completion.diameter.defined
              THEN Well_setRadius(well, globalDofIdx, completion.diameter.value \div 2)
              ELSE well       \* getDiameter() throws std::logic_error: caught
    IN  IF ctfApplies(completion.ctf)
        THEN Well_setConnectionTransmissibilityFactor(w1, globalDofIdx, completion.ctf.value)
        ELSE w1

RECURSIVE ApplyCompletions(_, _, _, _)
ApplyCompletions(ws, wellCompletions, dofSeq, n) ==
    IF n > Len(dofSeq) THEN ws
    ELSE LET globalDofIdx == dofSeq[n]
             cartesianDofIdx == cartesianCellId[globalDofIdx]
         IN  IF cartesianDofIdx \notin DOMAIN wellCompletions
             THEN ApplyCompletions(ws, wellCompletions, dofSeq, n + 1)
             ELSE LET compInfo == wellCompletions[cartesianDofIdx]
                  IN  ApplyCompletions(
                          [ws EXCEPT ![compInfo.well + 1] =
                              ApplyCompletion(@, globalDofIdx, compInfo.completion)],
                          wellCompletions, dofSeq, n + 1)

updateWellParameters_(ws, nameToIndex, curDeckWells, wellCompletions, inter) ==
    LET depths == SetReferenceDepths(ws, nameToIndex, curDeckWells, 1)
    IN  IF depths.failure # NoFailure THEN depths
        ELSE [wells |-> ApplyCompletions(depths.wells, wellCompletions,
                                         CompletedDofs(wellCompletions,
                                                       InteriorDofs(inter)), 1),
              failure |-> NoFailure]

(***************************************************************************)
(* beginEpisode: the status and the controls of one well of the deck.      *)
(* Every step returns the well as far as it was set and the error thrown.  *)
(***************************************************************************)
Weights(oil, gas, water) == [oil |-> oil, gas |-> gas, water |-> water]

\* lines 135-148
WellStatusOf(deckWellStatus) ==
    CASE deckWellStatus = "AUTO" -> "Open"     \* for now, auto means open
      [] deckWellStatus = "OPEN" -> "Open"
      [] deckWellStatus = "STOP" -> "Closed"
      [] deckWellStatus = "SHUT" -> "Shut"

\* the assert() of lines 153-154: aborts in a build with assertions
InjectorXorProducerAborts(nd, deckWell) ==
    ~nd /\ ((IF deckWell.isInjector THEN 1 ELSE 0)
            + (IF deckWell.isProducer THEN 1 ELSE 0) # 1)

\* lines 162-175
InjectedPhaseIndexOf(injectorType) ==
    CASE injectorType = "WATER" -> "waterPhaseIdx"
      [] injectorType = "GAS" -> "gasPhaseIdx"
      [] injectorType = "OIL" -> "oilPhaseIdx"

\* lines 177-201
InjectorControlModeOf(controlMode) ==
    CASE controlMode = "RATE" -> "VolumetricSurfaceRate"
      [] controlMode = "RESV" -> "VolumetricReservoirRate"
      [] controlMode = "BHP" -> "BottomHolePressure"
      [] controlMode = "THP" -> "TubingHeadPressure"

\* a variant with the weights of gas and water exchanged
InjectorWeightsOf_gasAsWater(injectorType) ==
    CASE injectorType = "WATER" -> Weights(0, 1, 0)
      [] injectorType = "OIL" -> Weights(1, 0, 0)
      [] injectorType = "GAS" -> Weights(0, 0, 1)

\* lines 203-219
InjectorWeightsOf(injectorType) ==
    CASE injectorType = "WATER" -> Weights(0, 0, 1)
      [] injectorType = "OIL" -> Weights(1, 0, 0)
      [] injectorType = "GAS" -> Weights(0, 1, 0)

\* lines 156-228
InjectorBranch(well, deckWell) ==
    LET injectProperties == deckWell.injectionProperties
        w1 == [well EXCEPT !.wellType = "Injector"]
    IN  IF injectProperties.injectorType = "MULTI"
        THEN [well |-> w1, failure |-> Failure("multi_phase_injector", well.name, FALSE)]
        ELSE
        LET w2 == [w1 EXCEPT !.injectedPhaseIndex =
                       InjectedPhaseIndexOf(injectProperties.injectorType)]
        IN  IF injectProperties.controlMode = "GRUP"
            THEN [well |-> w2, failure |-> Failure("well_groups", well.name, FALSE)]
            ELSE IF injectProperties.controlMode = "CMODE_UNDEFINED"
            THEN [well |-> w2,
                  failure |-> Failure("control_mode_undefined", well.name, TRUE)]
            ELSE
            [well |-> [w2 EXCEPT
                 !.controlMode = InjectorControlModeOf(injectProperties.controlMode),
                 !.volumetricWeights = InjectorWeightsOf(injectProperties.injectorType),
                 !.maximumSurfaceRate = injectProperties.surfaceInjectionRate,
                 !.maximumReservoirRate = injectProperties.reservoirInjectionRate,
                 !.targetBottomHolePressure = injectProperties.BHPLimit,
                 !.targetTubingHeadPressure = "+1e100"],
             failure |-> NoFailure]

\* a variant whose liquid rate leaves the water out and takes the oil rate
ProducerControl_liquidAsOil(well, producerProperties) ==
    LET cm == producerProperties.controlMode
    IN  CASE cm \in {"ORAT", "LRAT"} ->
               [well EXCEPT !.controlMode = "VolumetricSurfaceRate",
                            !.volumetricWeights = Weights(1, 0, 0),
                            !.maximumSurfaceRate = producerProperties.OilRate]
          [] cm = "GRAT" ->
               [well EXCEPT !.controlMode = "VolumetricSurfaceRate",
                            !.volumetricWeights = Weights(0, 1, 0),
                            !.maximumSurfaceRate = producerProperties.GasRate]
          [] cm = "WRAT" ->
               [well EXCEPT !.controlMode = "VolumetricSurfaceRate",
                            !.volumetricWeights = Weights(0, 0, 1),
                            !.maximumSurfaceRate = producerProperties.WaterRate]
          [] cm = "RESV" ->
               [well EXCEPT !.controlMode = "VolumetricReservoirRate",
                            !.volumetricWeights = Weights(1, 1, 1),
                            !.maximumSurfaceRate = producerProperties.ResVRate]
          [] cm = "BHP" -> [well EXCEPT !.controlMode = "BottomHolePressure"]
          [] cm = "THP" -> [well EXCEPT !.controlMode = "TubingHeadPressure"]

\* lines 236-286: the producer's switch over the declared control mode
ProducerControl(well, producerProperties) ==
    LET cm == producerProperties.controlMode
    IN  CASE cm = "ORAT" ->
               [well EXCEPT !.controlMode = "VolumetricSurfaceRate",
                            !.volumetricWeights = Weights(1, 0, 0),
                            !.maximumSurfaceRate = producerProperties.OilRate]
          [] cm = "GRAT" ->
               [well EXCEPT !.controlMode = "VolumetricSurfaceRate",
                            !.volumetricWeights = Weights(0, 1, 0),
                            !.maximumSurfaceRate = producerProperties.GasRate]
          [] cm = "WRAT" ->
               [well EXCEPT !.controlMode = "VolumetricSurfaceRate",
                            !.volumetricWeights = Weights(0, 0, 1),
                            !.maximumSurfaceRate = producerProperties.WaterRate]
          [] cm = "LRAT" ->
               [well EXCEPT !.controlMode = "VolumetricSurfaceRate",
                            !.volumetricWeights = Weights(1, 0, 1),
                            !.maximumSurfaceRate = producerProperties.LiquidRate]
          [] cm = "RESV" ->
               [well EXCEPT !.controlMode = "VolumetricReservoirRate",
                            !.volumetricWeights = Weights(1, 1, 1),
                            !.maximumSurfaceRate = producerProperties.ResVRate]
          [] cm = "BHP" -> [well EXCEPT !.controlMode = "BottomHolePressure"]
          [] cm = "THP" -> [well EXCEPT !.controlMode = "TubingHeadPressure"]

\* the control modes of a producer that make the switch throw
ProducerControlThrows(cm) == cm \in {"CRAT", "GRUP", "CMODE_UNDEFINED"}

\* a variant whose case CRAT does not throw and falls through to case RESV
ProducerBranch_cratFallsThrough(well, deckWell) ==
    LET producerProperties == deckWell.productionProperties
        cm == producerProperties.controlMode
        w1 == [well EXCEPT !.wellType = "Producer"]
    IN  IF cm \in {"GRUP", "CMODE_UNDEFINED"}
        THEN [well |-> w1,
              failure |-> IF cm = "GRUP" THEN Failure("well_groups", well.name, FALSE)
                          ELSE Failure("control_mode_undefined", well.name, TRUE)]
        ELSE [well |-> [ProducerControl(w1,
                            IF cm = "CRAT"
                            THEN [producerProperties EXCEPT !.controlMode = "RESV"]
                            ELSE producerProperties) EXCEPT
                  !.targetBottomHolePressure = producerProperties.BHPLimit,
                  !.targetTubingHeadPressure = "-1e100"],
              failure |-> NoFailure]

\* lines 230-293
ProducerBranch(well, deckWell) ==
    LET producerProperties == deckWell.productionProperties
        cm == producerProperties.controlMode
        w1 == [well EXCEPT !.wellType = "Producer"]
    IN  IF ProducerControlThrows(cm)
        THEN [well |-> w1,
              failure |-> CASE cm = "CRAT" ->
                                 Failure("linearly_combined_rates", well.name, FALSE)
                            [] cm = "GRUP" -> Failure("well_groups", well.name, FALSE)
                            [] cm = "CMODE_UNDEFINED" ->
                                 Failure("control_mode_undefined", well.name, TRUE)]
        ELSE [well |-> [ProducerControl(w1, producerProperties) EXCEPT
                  !.targetBottomHolePressure = producerProperties.BHPLimit,
                  !.targetTubingHeadPressure = "-1e100"],
              failure |-> NoFailure]

\* lines 133-293: the body of the loop for one well the manager knows
ResolveWell(nd, well, deckWell) ==
    LET w1 == [well EXCEPT !.wellStatus = WellStatusOf(deckWell.status)]
    IN  IF InjectorXorProducerAborts(nd, deckWell)
        THEN [well |-> w1,
              failure |-> Failure("assert_injector_xor_producer", well.name, FALSE)]
        ELSE LET inj == IF deckWell.isInjector THEN InjectorBranch(w1, deckWell)
                        ELSE [well |-> w1, failure |-> NoFailure]
             IN  IF inj.failure # NoFailure THEN inj
                 ELSE IF deckWell.isProducer THEN ProducerBranch(inj.well, deckWell)
                 ELSE inj

\* lines 125-294: the loop over the wells of the deck
RECURSIVE ResolveWells(_, _, _, _, _)
ResolveWells(nd, ws, nameToIndex, curDeckWells, deckWellIdx) ==
    IF deckWellIdx > Len(curDeckWells) THEN [wells |-> ws, failure |-> NoFailure]
    ELSE LET deckWell == curDeckWells[deckWellIdx]
         IN  IF ~hasWell(nameToIndex, deckWell.name)
             THEN ResolveWells(nd, ws, nameToIndex, curDeckWells, deckWellIdx + 1)
             ELSE LET idx == wellIndex(nameToIndex, deckWell.name).index
                      r == ResolveWell(nd, ws[idx + 1], deckWell)
                      ws1 == [ws EXCEPT ![idx + 1] = r.well]
                  IN  IF r.failure # NoFailure
                      THEN [wells |-> ws1, failure |-> r.failure]
                      ELSE ResolveWells(nd, ws1, nameToIndex, curDeckWells, deckWellIdx + 1)

(***************************************************************************)
(* beginEpisode as a function of the manager and the schedule.             *)
(***************************************************************************)
\* a variant that does not look at wasRestarted
topologyRebuildDue_ignoreRestart(wasRestarted, curDeckWells, prevWells, reportStepIdx) ==
    wellTopologyChanged_(curDeckWells, prevWells, reportStepIdx)

\* line 117: whether updateWellTopology_ is called
topologyRebuildDue(wasRestarted, curDeckWells, prevWells, reportStepIdx) ==
    wasRestarted \/ wellTopologyChanged_(curDeckWells, prevWells, reportStepIdx)

\* what a call leaves behind: the wells, the registry, the error, whether
\* updateWellTopology_ ran and what wellTopologyChanged_ returned
CallResult(ws, aux, fail, rebuilt, changed) ==
    [wells |-> ws, aux |-> aux, failure |-> fail, rebuilt |-> rebuilt, changed |-> changed]

beginEpisodeResult(nd, ws, nameToIndex, aux, curDeckWells, prevWells, reportStepIdx, inter, wasRestarted) ==
    LET wellCompMap == computeWellCompletionsMap_(nd, nameToIndex, curDeckWells)
        changed == IF wasRestarted THEN "notcalled"
                   ELSE IF wellTopologyChanged_(curDeckWells, prevWells, reportStepIdx)
                        THEN "true" ELSE "false"
        rebuild == topologyRebuildDue(wasRestarted, curDeckWells, prevWells, reportStepIdx)
        topo == IF rebuild THEN updateWellTopology_(ws, wellCompMap.map, inter)
                ELSE [wells |-> ws, aux |-> aux]
        params == updateWellParameters_(topo.wells, nameToIndex, curDeckWells,
                                        wellCompMap.map, inter)
        ctl == ResolveWells(nd, params.wells, nameToIndex, curDeckWells, 1)
    IN  IF ~wellCompMap.ok
        THEN CallResult(ws, aux, Failure("assert_duplicate_cell", "", FALSE),
                        FALSE, "notcalled")
        ELSE IF params.failure # NoFailure
        THEN CallResult(params.wells, topo.aux, params.failure, rebuild, changed)
        ELSE CallResult(ctl.wells, topo.aux, ctl.failure, rebuild, changed)

(***************************************************************************)
(* The descriptions of a report step the schedule is drawn from.           *)
(***************************************************************************)
Diameter(value) == [defined |-> TRUE, value |-> value]
UndefinedDiameter == [defined |-> FALSE, value |-> 0]
Finite(value) == [class |-> "finite", value |-> value]
NaN == [class |-> "nan", value |-> 0]

\* a completion of the cell c: the diameter and the transmissibility factor
\* are declared for some cells and left to their defaults for the others
DeckCompletion(c) ==
    Completion(c,
               IF (c[1] + c[2] + c[3]) % 2 = 0
                   THEN Diameter(2 * (c[1] + c[2] * NX + c[3] * NX * NY) + 2)
                   ELSE UndefinedDiameter,
               IF c[1] = 0 THEN Finite(c[2] + c[3] + 3) ELSE NaN)

\* a producer under oil-rate control, reference depth defaulted
PlainProducer(name, completions) ==
    DeckWell(name, completions, "OPEN", FALSE, TRUE,
             InjectionProperties("WATER", "CMODE_UNDEFINED", 0),
             ProductionProperties("ORAT", 0), TRUE, 0)

\* a water injector under rate control, reference depth defaulted
PlainInjector(name, completions) ==
    DeckWell(name, completions, "SHUT", TRUE, FALSE,
             InjectionProperties("WATER", "RATE", 10),
             ProductionProperties("CMODE_UNDEFINED", 10), TRUE, 0)

\* in the descriptions that vary the topology, A produces and B injects
PlainWell(name, completions) ==
    IF name = "A" THEN PlainProducer(name, completions)
    ELSE PlainInjector(name, completions)

\* the cells the schedule completes: two opposite corners of the grid
CompletedCells == {<<0, 0, 0>>, <<NX - 1, NY - 1, NZ - 1>>}

NameLists == DistinctSeqs(WellNames, Cardinality(WellNames))
CompletionLists ==
    {[n \in DOMAIN s |-> DeckCompletion(s[n])] : s \in DistinctSeqs(CompletedCells, MaxCompletions)}

\* the ways to complete the wells of a list with at most MaxCompletions cells
CompletionsOf(names) ==
    {f \in [DOMAIN names -> CompletionLists] : SumLen(f, Len(names)) <= MaxCompletions}

\* descriptions that differ in the wells and their completions
TopologyDescriptions ==
    UNION {
        {[n \in DOMAIN names |-> PlainWell(names[n], f[n])] : f \in CompletionsOf(names)}
        : names \in NameLists}

\* the declarations that vary the controls of one well: producers and
\* injectors under every control mode, wells declared both or neither,
\* every status, and a declared reference depth
ControlDeclarations(name, completions) ==
    {DeckWell(name, completions, "OPEN", FALSE, TRUE,
              InjectionProperties("WATER", "CMODE_UNDEFINED", 0),
              ProductionProperties(cm, base), TRUE, 0) :
        cm \in ProducerCModes, base \in {0}}
    \cup
    {DeckWell(name, completions, "OPEN", FALSE, TRUE,
              InjectionProperties("WATER", "CMODE_UNDEFINED", 0),
              ProductionProperties(cm, 20), TRUE, 0) :
        cm \in {"ORAT", "GRAT", "WRAT", "LRAT", "RESV"}}
    \cup
    {DeckWell(name, completions, "OPEN", TRUE, FALSE,
              InjectionProperties(type, cm, 10),
              ProductionProperties("CMODE_UNDEFINED", 10), TRUE, 0) :
        type \in InjectorTypes, cm \in InjectorCModes}
    \cup
    {DeckWell(name, completions, "OPEN", TRUE, FALSE,
              InjectionProperties("GAS", "RESV", 30),
              ProductionProperties("CMODE_UNDEFINED", 30), FALSE, 50)}
    \cup
    {DeckWell(name, completions, "OPEN", TRUE, TRUE,
              InjectionProperties(inj[1], inj[2], 10),
              ProductionProperties(cm, 0), TRUE, 0) :
        inj \in {<<"WATER", "RATE">>, <<"MULTI", "BHP">>, <<"GAS", "GRUP">>},
        cm \in {"ORAT", "BHP"}}
    \cup
    {DeckWell(name, completions, "OPEN", FALSE, FALSE,
              InjectionProperties("WATER", "RATE", 10),
              ProductionProperties("ORAT", 0), TRUE, 0)}
    \cup
    {DeckWell(name, completions, status, FALSE, TRUE,
              InjectionProperties("WATER", "CMODE_UNDEFINED", 0),
              ProductionProperties("BHP", 0), TRUE, 0) :
        status \in StatusEnum}

\* descriptions that differ in the controls: well A alone under every
\* declaration, and well A next to a well B
ControlDescriptions ==
    {<<d>> : d \in ControlDeclarations("A", <<DeckCompletion(<<0, 0, 0>>)>>)}
    \cup
    {<<PlainProducer("A", <<DeckCompletion(<<0, 0, 0>>)>>), d>> :
        d \in {PlainInjector("B", <<>>),
               DeckWell("B", <<>>, "STOP", FALSE, TRUE,
                        InjectionProperties("WATER", "CMODE_UNDEFINED", 0),
                        ProductionProperties("GRUP", 0), TRUE, 0)}}
    \cup
    {<<PlainInjector("B", <<>>), PlainProducer("A", <<DeckCompletion(<<0, 0, 0>>)>>)>>}

\* a Scalar that is +inf (sign 1) or -inf (sign -1)
Infinite(sign) == [class |-> "infinite", value |-> sign]

\* what a completion can declare for its diameter and its transmissibility
\* factor
DiameterValues == {UndefinedDiameter, Diameter(4)}
CtfValues == {NaN, Infinite(1), Infinite(0 - 1), Finite(0), Finite(0 - 2), Finite(3)}

\* the reference depth of a declaration is given in the deck
DeclaredDepth(deckWell, depth) ==
    [deckWell EXCEPT !.refDepthDefaulted = FALSE, !.refDepth = depth]

\* declarations of a well B beside a well A: plain or not supported, with
\* and without completions, with and without a reference depth
DriftDeclarations(c0, c1) ==
    LET plain == {PlainInjector("B", completions) : completions \in {<<>>, <<c0>>, <<c1>>}}
    IN  plain
        \cup {DeclaredDepth(d, 50) : d \in plain}
        \cup {DeckWell("B", <<c1>>, status, TRUE, flags[1],
                       InjectionProperties(flags[2], "RATE", 10),
                       ProductionProperties(flags[3], 10), TRUE, 0) :
                 status \in {"OPEN", "STOP"},
                 flags \in {<<FALSE, "MULTI", "ORAT">>, <<TRUE, "GAS", "CRAT">>}}

\* descriptions that differ in the parameters of the completions of well A,
\* and descriptions with a well B that the manager may not know
ParameterDescriptions ==
    LET c0 == <<0, 0, 0>>
        c1 == <<NX - 1, NY - 1, NZ - 1>>
    IN  {<<PlainProducer("A", <<Completion(c0, d, t)>>)>> :
            d \in DiameterValues, t \in CtfValues}
        \cup
        {<<PlainProducer("A", <<Completion(c1, UndefinedDiameter, NaN),
                                Completion(c0, d, t)>>)>> :
            d \in DiameterValues, t \in {Infinite(1), Finite(0), Finite(3)}}
        \cup
        {<<PlainProducer("A", <<DeckCompletion(c0)>>), b>> :
            b \in DriftDeclarations(DeckCompletion(c0), DeckCompletion(c1))}
        \cup
        {<<b, DeclaredDepth(PlainProducer("A", <<DeckCompletion(c0)>>), 70)>> :
            b \in {PlainInjector("B", <<DeckCompletion(c1)>>),
                   DeclaredDepth(PlainInjector("B", <<DeckCompletion(c1)>>), 50)}}

(***************************************************************************)
(* The state after construction, and the calls.                            *)
(***************************************************************************)
NoCall == [op |-> "none", wasRestarted |-> FALSE, rebuilt |-> FALSE, changed |-> "notcalled"]
Call(op, wasRestarted, rebuilt, changed) ==
    [op |-> op, wasRestarted |-> wasRestarted, rebuilt |-> rebuilt, changed |-> changed]

\* a rate vector: one rate per phase
RateVector(oil, gas, water) == [oil |-> oil, gas |-> gas, water |-> water]
ZeroRate == RateVector(0, 0, 0)

\* the outputs of a call that broadcasts nothing, computes no rate and looks
\* no well up
NoRates == [globalDofIdx |-> -1, before |-> ZeroRate, value |-> ZeroRate]
NoLookup == [op |-> "none", name |-> "", thrown |-> FALSE, index |-> -1, wellName |-> ""]
ReturnsNothing ==
    /\ hooks' = <<>>
    /\ q' = NoRates
    /\ lookup' = NoLookup

InitWith(descriptions, knownLists, partitions) ==
    /\ ndebug \in BOOLEAN
    /\ allDeckWells \in knownLists
    /\ interior \in partitions
    /\ episodeIdx = 0
    /\ scheduleWells \in descriptions
    /\ schedulePrevWells = <<>>
    /\ wells_ = <<>>
    /\ wellNameToIndex_ = [n \in {} |-> 0]
    /\ auxiliaryModules = [w \in {} |-> 0]
    /\ pc = "constructed"
    /\ lastCall = NoCall
    /\ failure = NoFailure
    /\ hooks = <<>>
    /\ q = NoRates
    /\ lookup = NoLookup

\* a variant that numbers the wells from the end of the schedule
init_numberedFromEnd ==
    /\ pc = "constructed"
    /\ wells_' = [n \in DOMAIN allDeckWells |-> NewWell(allDeckWells[n])]
    /\ wellNameToIndex_' =
           [name \in Range(allDeckWells) |->
               Len(allDeckWells)
                   - (CHOOSE n \in DOMAIN allDeckWells : allDeckWells[n] = name)]
    /\ pc' = "episodeBegin"
    /\ lastCall' = Call("init", FALSE, FALSE, "notcalled")
    /\ ReturnsNothing
    /\ UNCHANGED <<ndebug, allDeckWells, interior, episodeIdx, scheduleWells,
                   schedulePrevWells, auxiliaryModules, failure>>

\* init(): one well per name of the schedule, in the order of the schedule
init ==
    /\ pc = "constructed"
    /\ wells_' = [n \in DOMAIN allDeckWells |-> NewWell(allDeckWells[n])]
    /\ wellNameToIndex_' =
           [name \in Range(allDeckWells) |->
               (CHOOSE n \in DOMAIN allDeckWells : allDeckWells[n] = name) - 1]
    /\ pc' = "episodeBegin"
    /\ lastCall' = Call("init", FALSE, FALSE, "notcalled")
    /\ ReturnsNothing
    /\ UNCHANGED <<ndebug, allDeckWells, interior, episodeIdx, scheduleWells,
                   schedulePrevWells, auxiliaryModules, failure>>

\* the effect of beginEpisode(eclState, wasRestarted) on the state
BeginEpisodeEffect(op, wasRestarted) ==
    LET r == beginEpisodeResult(ndebug, wells_, wellNameToIndex_, auxiliaryModules,
                                scheduleWells, schedulePrevWells, episodeIdx,
                                interior, wasRestarted)
    IN  /\ wells_' = r.wells
        /\ auxiliaryModules' = r.aux
        /\ failure' = r.failure
        /\ lastCall' = Call(op, wasRestarted, r.rebuilt, r.changed)
        /\ pc' = IF r.failure = NoFailure THEN "inEpisode" ELSE "failed"
        /\ ReturnsNothing
        /\ UNCHANGED <<ndebug, allDeckWells, interior, episodeIdx, scheduleWells,
                       schedulePrevWells, wellNameToIndex_>>

\* the problem calls beginEpisode(eclState) when an episode starts
beginEpisode ==
    /\ pc = "episodeBegin"
    /\ BeginEpisodeEffect("beginEpisode", FALSE)

\* serialize(): nothing is written, everything comes from the deck
serialize ==
    /\ pc = "inEpisode"
    /\ lastCall' = Call("serialize", FALSE, FALSE, "notcalled")
    /\ ReturnsNothing
    /\ UNCHANGED <<ndebug, allDeckWells, interior, episodeIdx, scheduleWells,
                   schedulePrevWells, wells_, wellNameToIndex_, auxiliaryModules,
                   pc, failure>>

\* deserialize(): beginEpisode(eclState, /*wasRestarted=*/true)
deserialize ==
    /\ pc \in {"episodeBegin", "inEpisode"}
    /\ BeginEpisodeEffect("deserialize", TRUE)

\* endEpisode(): empty
endEpisode ==
    /\ pc = "inEpisode"
    /\ pc' = "episodeOver"
    /\ lastCall' = Call("endEpisode", FALSE, FALSE, "notcalled")
    /\ ReturnsNothing
    /\ UNCHANGED <<ndebug, allDeckWells, interior, episodeIdx, scheduleWells,
                   schedulePrevWells, wells_, wellNameToIndex_, auxiliaryModules,
                   failure>>

\* the simulator enters the next episode; its description is read
startNextEpisode(descriptions) ==
    /\ pc = "episodeOver"
    /\ episodeIdx < LastReportStep
    /\ episodeIdx' = episodeIdx + 1
    /\ schedulePrevWells' = scheduleWells
    /\ scheduleWells' \in descriptions
    /\ pc' = "episodeBegin"
    /\ lastCall' = Call("startNextEpisode", FALSE, FALSE, "notcalled")
    /\ ReturnsNothing
    /\ UNCHANGED <<ndebug, allDeckWells, interior, wells_, wellNameToIndex_,
                   auxiliaryModules, failure>>

(***************************************************************************)
(* The broadcasts of a time step and of an iteration.  A hook of a well is *)
(* code of the well; the manager's part is which hooks it calls, on which  *)
(* wells and elements, in which order.                                     *)
(***************************************************************************)
\* a hook called on the well of an index; elem is -1 outside the element loop
HookCall(hook, wellIdx, elem) == [hook |-> hook, well |-> wellIdx, elem |-> elem]

\* for (wellIdx = 0; wellIdx < wells_.size(); ++wellIdx) wells_[wellIdx]->hook()
Broadcast(ws, hook, elem) == [n \in 1..Len(ws) |-> HookCall(hook, n - 1, elem)]

\* lines 377-387: the loop over the elements of the grid view
RECURSIVE AccumulateCalls(_, _, _)
AccumulateCalls(ws, inter, elemIdx) ==
    IF elemIdx > Len(Elements) THEN <<>>
    ELSE (IF Elements[elemIdx].index \notin inter THEN <<>>
          ELSE Broadcast(ws, "beginIterationAccumulate", Elements[elemIdx].index))
             \o AccumulateCalls(ws, inter, elemIdx + 1)

\* a variant that calls the post-process hooks before the loop over the
\* elements
beginIterationCalls_postProcessEarly(ws, inter) ==
    Broadcast(ws, "beginIterationPreProcess", -1)
        \o Broadcast(ws, "beginIterationPostProcess", -1)
        \o AccumulateCalls(ws, inter, 1)

\* lines 367-392: the calls of one beginIteration()
beginIterationCalls(ws, inter) ==
    Broadcast(ws, "beginIterationPreProcess", -1)
        \o AccumulateCalls(ws, inter, 1)
        \o Broadcast(ws, "beginIterationPostProcess", -1)

\* a variant in which the broadcast takes the wells out of the registry of
\* the model
Notify_clearsRegistry(op, calls) ==
    /\ hooks' = calls
    /\ q' = NoRates
    /\ lookup' = NoLookup
    /\ lastCall' = Call(op, FALSE, FALSE, "notcalled")
    /\ auxiliaryModules' = [w \in DOMAIN auxiliaryModules |-> 0]
    /\ UNCHANGED <<ndebug, allDeckWells, interior, episodeIdx, scheduleWells,
                   schedulePrevWells, wells_, wellNameToIndex_, pc, failure>>

\* a call that only notifies the wells
Notify(op, calls) ==
    /\ hooks' = calls
    /\ q' = NoRates
    /\ lookup' = NoLookup
    /\ lastCall' = Call(op, FALSE, FALSE, "notcalled")
    /\ UNCHANGED <<ndebug, allDeckWells, interior, episodeIdx, scheduleWells,
                   schedulePrevWells, wells_, wellNameToIndex_, auxiliaryModules,
                   pc, failure>>

\* lines 354-359
beginTimeStep ==
    /\ pc = "inEpisode"
    /\ Notify("beginTimeStep", Broadcast(wells_, "beginTimeStep", -1))

\* lines 367-392
beginIteration ==
    /\ pc = "inEpisode"
    /\ Notify("beginIteration", beginIterationCalls(wells_, interior))

\* lines 397-402
endIteration ==
    /\ pc = "inEpisode"
    /\ Notify("endIteration", Broadcast(wells_, "endIteration", -1))

\* lines 407-412
endTimeStep ==
    /\ pc = "inEpisode"
    /\ Notify("endTimeStep", Broadcast(wells_, "endTimeStep", -1))

(***************************************************************************)
(* computeTotalRatesForDof                                                 *)
(***************************************************************************)
RateAdd(a, b) == RateVector(a.oil + b.oil, a.gas + b.gas, a.water + b.water)

\* Well::computeTotalRatesForDof(wellRate, ...): a well adds nothing to the
\* rate of a DOF that is not its own, and its own rate to one that is
Well_computeTotalRatesForDof(well, wellIdx, wellRate, globalDofIdx) ==
    IF globalDofIdx \in Range(well.dofs)
    THEN RateVector(wellIdx + 1, globalDofIdx + 1, 0 - 1)
    ELSE wellRate

\* the wells in the order of the loop of line 435
IndexOrder(ws) == [n \in 1..Len(ws) |-> n - 1]

\* lines 435-439: the loop, over the wells in a given order
RECURSIVE SumWellRates(_, _, _, _, _)
SumWellRates(ws, order, globalDofIdx, n, acc) ==
    IF n > Len(order) THEN acc
    ELSE LET wellIdx == order[n]
             wellRate == Well_computeTotalRatesForDof(ws[wellIdx + 1], wellIdx,
                                                      ZeroRate, globalDofIdx)
         IN  SumWellRates(ws, order, globalDofIdx, n + 1, RateAdd(acc, wellRate))

\* a variant without the "q = 0.0" of line 430
computeTotalRatesForDofResult_accumulates(ws, qBefore, globalDofIdx) ==
    SumWellRates(ws, IndexOrder(ws), globalDofIdx, 1, qBefore)

\* lines 424-440: q after the call, given q before the call
computeTotalRatesForDofResult(ws, qBefore, globalDofIdx) ==
    SumWellRates(ws, IndexOrder(ws), globalDofIdx, 1, ZeroRate)

\* the values of the accumulator before the call
StaleRates == {ZeroRate, RateVector(5, 5, 5)}

computeTotalRatesForDof ==
    /\ pc = "inEpisode"
    /\ \E globalDofIdx \in GlobalDofs, qBefore \in StaleRates :
           q' = [globalDofIdx |-> globalDofIdx, before |-> qBefore,
                 value |-> computeTotalRatesForDofResult(wells_, qBefore, globalDofIdx)]
    /\ hooks' = <<>>
    /\ lookup' = NoLookup
    /\ lastCall' = Call("computeTotalRatesForDof", FALSE, FALSE, "notcalled")
    /\ UNCHANGED <<ndebug, allDeckWells, interior, episodeIdx, scheduleWells,
                   schedulePrevWells, wells_, wellNameToIndex_, auxiliaryModules,
                   pc, failure>>

(***************************************************************************)
(* The lookups by name.  The exception of a failed lookup goes to the      *)
(* caller of the lookup; the manager is as it was.                         *)
(***************************************************************************)
numWells(ws) == Len(ws)

\* lines 328-337: well(wellName) is wells_[wellIndex(wellName)]
wellByName(ws, nameToIndex, wellName) ==
    LET i == wellIndex(nameToIndex, wellName)
    IN  IF i.ok THEN [ok |-> TRUE, index |-> i.index, wellName |-> ws[i.index + 1].name]
        ELSE [ok |-> FALSE, index |-> -1, wellName |-> ""]

\* the names a caller asks for: the names of the schedules and one more
LookupNames == WellNames \cup {"C"}

Lookup(op, result) ==
    /\ lookup' = result
    /\ hooks' = <<>>
    /\ q' = NoRates
    /\ lastCall' = Call(op, FALSE, FALSE, "notcalled")
    /\ UNCHANGED <<ndebug, allDeckWells, interior, episodeIdx, scheduleWells,
                   schedulePrevWells, wells_, wellNameToIndex_, auxiliaryModules,
                   pc, failure>>

\* a caller asks for the index of a name
callWellIndex ==
    /\ pc \in {"episodeBegin", "inEpisode"}
    /\ \E wellName \in LookupNames :
           LET i == wellIndex(wellNameToIndex_, wellName)
           IN  Lookup("wellIndex", [op |-> "wellIndex", name |-> wellName,
                                    thrown |-> ~i.ok, index |-> i.index,
                                    wellName |-> ""])

\* a caller asks for the well of a name
callWell ==
    /\ pc \in {"episodeBegin", "inEpisode"}
    /\ \E wellName \in LookupNames :
           LET w == wellByName(wells_, wellNameToIndex_, wellName)
           IN  Lookup("well", [op |-> "well", name |-> wellName, thrown |-> ~w.ok,
                               index |-> w.index, wellName |-> w.wellName])

\* the grid is local as a whole, or its first element is in the overlap
Init == InitWith(TopologyDescriptions, {<<"B", "A">>, <<"A">>},
                 {GlobalDofs, GlobalDofs \ {0}})

Next ==
    \/ init
    \/ beginEpisode
    \/ serialize
    \/ deserialize
    \/ endEpisode
    \/ startNextEpisode(TopologyDescriptions)

Spec == Init /\ [][Next]_vars

\* the same calls over the descriptions that vary the controls
InitCtl == InitWith(ControlDescriptions, {<<"B", "A">>}, {GlobalDofs})

NextCtl ==
    \/ init
    \/ beginEpisode
    \/ serialize
    \/ deserialize
    \/ endEpisode
    \/ startNextEpisode(ControlDescriptions)

SpecCtl == InitCtl /\ [][NextCtl]_vars

\* every call of the manager, over a few descriptions of one or two wells
\* whose completions are apart, or on one cell
SolveDescriptions ==
    LET c0 == DeckCompletion(<<0, 0, 0>>)
        c1 == DeckCompletion(<<NX - 1, NY - 1, NZ - 1>>)
    IN  {<<>>,
         <<PlainWell("A", <<c0>>)>>,
         <<PlainWell("A", <<c0, c1>>)>>,
         <<PlainWell("A", <<c0>>), PlainWell("B", <<c1>>)>>,
         <<PlainWell("B", <<c0>>), PlainWell("A", <<c1>>)>>,
         <<PlainWell("A", <<c0>>), PlainWell("B", <<c0>>)>>}

InitSolve == InitWith(SolveDescriptions, {<<"B", "A">>, <<"A">>},
                      {GlobalDofs, GlobalDofs \ {0}})

NextSolve ==
    \/ init
    \/ beginEpisode
    \/ beginTimeStep
    \/ beginIteration
    \/ computeTotalRatesForDof
    \/ endIteration
    \/ endTimeStep
    \/ callWellIndex
    \/ callWell
    \/ serialize
    \/ deserialize
    \/ endEpisode
    \/ startNextEpisode(SolveDescriptions)

SpecSolve == InitSolve /\ [][NextSolve]_vars

\* the calls of an episode over the descriptions that vary the parameters
InitPar == InitWith(ParameterDescriptions, {<<"B", "A">>, <<"A">>},
                    {GlobalDofs, GlobalDofs \ {0}})

NextPar ==
    \/ init
    \/ beginEpisode
    \/ serialize
    \/ deserialize
    \/ endEpisode
    \/ startNextEpisode(ParameterDescriptions)

SpecPar == InitPar /\ [][NextPar]_vars

(***************************************************************************)
(* The properties.                                                         *)
(***************************************************************************)
\* the last call was beginEpisode, directly or from deserialize
BeginEpisodeCalled == lastCall.op \in {"beginEpisode", "deserialize"}
BeginEpisodeReturned == BeginEpisodeCalled /\ failure = NoFailure
\* the last call ran wellTopologyChanged_
DetectorCalled == BeginEpisodeCalled /\ lastCall.changed # "notcalled"

\* the wells of a description the manager knows
KnownWells(description) ==
    {n \in DOMAIN description : hasWell(wellNameToIndex_, description[n].name)}

\* two completions of wells the manager knows share a logical coordinate
DuplicateCoordinate(description) ==
    \E n1, n2 \in KnownWells(description) :
        \E c1 \in DOMAIN description[n1].completions,
           c2 \in DOMAIN description[n2].completions :
            /\ <<n1, c1>> # <<n2, c2>>
            /\ cartIdx(description[n1].completions[c1])
                   = cartIdx(description[n2].completions[c2])

\* the coordinates a description completes for the well of a name
WellCoords(description, name) ==
    UNION {{<<c.I, c.J, c.K>> : c \in Range(description[n].completions)} :
              n \in {m \in DOMAIN description : description[m].name = name}}

DeckNames(description) == {description[n].name : n \in DOMAIN description}

\* C1: whenever two completions of wells known to the manager have the same
\* logical coordinate in the interval, building the completions map fails
\* fatally instead of returning a map.
C1_DuplicateCoordinateIsFatal ==
    (BeginEpisodeCalled /\ DuplicateCoordinate(scheduleWells))
        => failure.kind = "assert_duplicate_cell"

\* C2: for intervalIndex > 0, wellTopologyChanged_ returns true if between
\* the previous and the current interval a completion coordinate is added
\* to a well, removed from a well or moved to a different well.
C2_CompletionChangeDetected ==
    (/\ DetectorCalled
     /\ episodeIdx > 0
     /\ \E name \in WellNames :
            WellCoords(schedulePrevWells, name) # WellCoords(scheduleWells, name))
        => lastCall.changed = "true"

\* C3: for intervalIndex > 0, wellTopologyChanged_ returns false when the
\* two intervals have the same set of well names and every well has the
\* same set of completion coordinates in both, whatever the order in which
\* the completions are listed.
C3_IdenticalTopologyUnchanged ==
    (/\ DetectorCalled
     /\ episodeIdx > 0
     /\ DeckNames(schedulePrevWells) = DeckNames(scheduleWells)
     /\ \A name \in WellNames :
            WellCoords(schedulePrevWells, name) = WellCoords(scheduleWells, name))
        => lastCall.changed = "false"

\* the detector returned false for a well whose completions are the same
\* cells listed in another order
C3_Witness ==
    /\ DetectorCalled
    /\ episodeIdx > 0
    /\ lastCall.changed = "false"
    /\ DeckNames(schedulePrevWells) = DeckNames(scheduleWells)
    /\ \A name \in WellNames :
           WellCoords(schedulePrevWells, name) = WellCoords(scheduleWells, name)
    /\ \E n \in DOMAIN scheduleWells, p \in DOMAIN schedulePrevWells :
           /\ scheduleWells[n].name = schedulePrevWells[p].name
           /\ Len(scheduleWells[n].completions) = 2
           /\ scheduleWells[n].completions # schedulePrevWells[p].completions

\* C4: for intervalIndex > 0, wellTopologyChanged_ returns true when the
\* number of wells differs from the previous interval, and when some well
\* of the interval has no well of the same name in the previous interval.
C4_WellListChangeDetected ==
    (/\ DetectorCalled
     /\ episodeIdx > 0
     /\ \/ Len(scheduleWells) # Len(schedulePrevWells)
        \/ \E n \in DOMAIN scheduleWells :
               scheduleWells[n].name \notin DeckNames(schedulePrevWells))
        => lastCall.changed = "true"

\* the detector returned true for as many wells as before, one of them new
C4_Witness ==
    /\ DetectorCalled
    /\ episodeIdx > 0
    /\ lastCall.changed = "true"
    /\ Len(scheduleWells) = Len(schedulePrevWells)
    /\ \E n \in DOMAIN scheduleWells :
           scheduleWells[n].name \notin DeckNames(schedulePrevWells)

\* C5: wellTopologyChanged_ returns true at intervalIndex 0 for every
\* schedule, a schedule without wells and completions included.
C5_FirstStepAlwaysChanged ==
    (DetectorCalled /\ episodeIdx = 0) => lastCall.changed = "true"

\* the detector returned true at step 0 for a schedule without wells
C5_Witness ==
    /\ DetectorCalled
    /\ episodeIdx = 0
    /\ scheduleWells = <<>>
    /\ lastCall.changed = "true"

\* the DOF-to-well association: the DOFs registered with every well
Association(ws) == [w \in DOMAIN ws |-> ws[w].dofs]

\* a step that is a call of beginEpisode, directly or from deserialize
BeginEpisodeStep ==
    /\ pc \in {"episodeBegin", "inEpisode"}
    /\ lastCall'.op \in {"beginEpisode", "deserialize"}

\* what a call of beginEpisode does about the topology: it rebuilds exactly
\* when the step is 0, the run was restarted or the detector reports a
\* change, and a call that does not rebuild leaves the association and the
\* registry of auxiliary modules as they were
RebuildsExactlyWhenDue ==
    /\ lastCall'.rebuilt <=>
           \/ episodeIdx = 0
           \/ lastCall'.wasRestarted
           \/ wellTopologyChanged_(scheduleWells, schedulePrevWells, episodeIdx)
    /\ ~lastCall'.rebuilt =>
           /\ Association(wells_') = Association(wells_)
           /\ auxiliaryModules' = auxiliaryModules

\* C6 as stated: every call of beginEpisode rebuilds the association if and
\* only if intervalIndex is 0, wasRestarted is true or the detector reports
\* a change; every other call leaves association and registry untouched.
C6_RebuildIffDue == [][BeginEpisodeStep => RebuildsExactlyWhenDue]_vars

\* C6 amended: the same for every call of beginEpisode that is not aborted
\* while the completions map is built (a cell completed twice in a build
\* with assertions); an aborted call rebuilds nothing.
C6_RebuildIffDueUnlessAborted ==
    [][(BeginEpisodeStep /\ failure'.kind # "assert_duplicate_cell")
           => RebuildsExactlyWhenDue]_vars

\* a call after step 0 returned without a rebuild and a well kept its DOFs
C6_Witness ==
    /\ BeginEpisodeReturned
    /\ episodeIdx > 0
    /\ ~lastCall.rebuilt
    /\ ~lastCall.wasRestarted
    /\ \E w \in DOMAIN wells_ : wells_[w].dofs # <<>>

\* the well of the manager a declaration of the deck is about
WellOf(deckWell) == wells_[wellNameToIndex_[deckWell.name] + 1]

\* C7: after beginEpisode returns, every well the manager knows that is in
\* the schedule of the interval has exactly one of the types Injector and
\* Producer, matching its declared flag; a well declared both or neither
\* makes beginEpisode fail instead of returning.
C7_ExactlyOneType ==
    BeginEpisodeReturned =>
        \A n \in KnownWells(scheduleWells) :
            LET d == scheduleWells[n]
            IN  /\ d.isInjector # d.isProducer
                /\ d.isInjector => WellOf(d).wellType = "Injector"
                /\ d.isProducer => WellOf(d).wellType = "Producer"

\* the state a producer is resolved to, by declared control variable
ProducerResolved(w, p) ==
    LET cm == p.controlMode
    IN  /\ cm = "ORAT" => /\ w.controlMode = "VolumetricSurfaceRate"
                          /\ w.volumetricWeights = [oil |-> 1, gas |-> 0, water |-> 0]
                          /\ w.maximumSurfaceRate = p.OilRate
        /\ cm = "GRAT" => /\ w.controlMode = "VolumetricSurfaceRate"
                          /\ w.volumetricWeights = [oil |-> 0, gas |-> 1, water |-> 0]
                          /\ w.maximumSurfaceRate = p.GasRate
        /\ cm = "WRAT" => /\ w.controlMode = "VolumetricSurfaceRate"
                          /\ w.volumetricWeights = [oil |-> 0, gas |-> 0, water |-> 1]
                          /\ w.maximumSurfaceRate = p.WaterRate
        /\ cm = "LRAT" => /\ w.controlMode = "VolumetricSurfaceRate"
                          /\ w.volumetricWeights = [oil |-> 1, gas |-> 0, water |-> 1]
                          /\ w.maximumSurfaceRate = p.LiquidRate
        /\ cm = "RESV" => /\ w.controlMode = "VolumetricReservoirRate"
                          /\ w.volumetricWeights = [oil |-> 1, gas |-> 1, water |-> 1]
        /\ cm = "BHP" => w.controlMode = "BottomHolePressure"
        /\ cm = "THP" => w.controlMode = "TubingHeadPressure"

\* C8: for a producer, beginEpisode resolves ORAT, GRAT, WRAT, LRAT to
\* VolumetricSurfaceRate with the weights (1,0,0), (0,1,0), (0,0,1), (1,0,1)
\* and the declared oil, gas, water, liquid rate as surface-rate target,
\* RESV to VolumetricReservoirRate with the weights (1,1,1), BHP to
\* BottomHolePressure and THP to TubingHeadPressure.
C8_ProducerControls ==
    BeginEpisodeReturned =>
        \A n \in KnownWells(scheduleWells) :
            LET d == scheduleWells[n]
            IN  d.isProducer => ProducerResolved(WellOf(d), d.productionProperties)

\* a producer under liquid-rate control was resolved
C8_Witness ==
    /\ BeginEpisodeReturned
    /\ \E n \in KnownWells(scheduleWells) :
           LET d == scheduleWells[n]
           IN  /\ d.isProducer /\ ~d.isInjector
               /\ d.productionProperties.controlMode = "LRAT"
               /\ WellOf(d).maximumSurfaceRate = d.productionProperties.LiquidRate
               /\ WellOf(d).volumetricWeights = [oil |-> 1, gas |-> 0, water |-> 1]

\* the state an injector is resolved to, by control variable and phase
InjectorResolved(w, p) ==
    /\ p.controlMode = "RATE" => w.controlMode = "VolumetricSurfaceRate"
    /\ p.controlMode = "RESV" => w.controlMode = "VolumetricReservoirRate"
    /\ p.controlMode = "BHP" => w.controlMode = "BottomHolePressure"
    /\ p.controlMode = "THP" => w.controlMode = "TubingHeadPressure"
    /\ p.injectorType = "OIL" =>
           /\ w.volumetricWeights = [oil |-> 1, gas |-> 0, water |-> 0]
           /\ w.injectedPhaseIndex = "oilPhaseIdx"
    /\ p.injectorType = "GAS" =>
           /\ w.volumetricWeights = [oil |-> 0, gas |-> 1, water |-> 0]
           /\ w.injectedPhaseIndex = "gasPhaseIdx"
    /\ p.injectorType = "WATER" =>
           /\ w.volumetricWeights = [oil |-> 0, gas |-> 0, water |-> 1]
           /\ w.injectedPhaseIndex = "waterPhaseIdx"
    /\ w.volumetricWeights.oil + w.volumetricWeights.gas + w.volumetricWeights.water = 1

\* C9: for an injector (a well declared injector and not producer),
\* beginEpisode resolves RATE, RESV, BHP, THP to VolumetricSurfaceRate,
\* VolumetricReservoirRate, BottomHolePressure, TubingHeadPressure, and for
\* every one of them sets the weights to the one-hot vector of the injected
\* phase and the injected-phase index to that phase.
C9_InjectorControls ==
    BeginEpisodeReturned =>
        \A n \in KnownWells(scheduleWells) :
            LET d == scheduleWells[n]
            IN  (d.isInjector /\ ~d.isProducer)
                    => InjectorResolved(WellOf(d), d.injectionProperties)

\* a gas injector under bottom-hole-pressure control was resolved
C9_Witness ==
    /\ BeginEpisodeReturned
    /\ \E n \in KnownWells(scheduleWells) :
           LET d == scheduleWells[n]
           IN  /\ d.isInjector /\ ~d.isProducer
               /\ d.injectionProperties.injectorType = "GAS"
               /\ d.injectionProperties.controlMode = "BHP"
               /\ WellOf(d).controlMode = "BottomHolePressure"
               /\ WellOf(d).injectedPhaseIndex = "gasPhaseIdx"

\* a declaration beginEpisode does not support
Unsupported(d) ==
    \/ /\ d.isInjector
       /\ \/ d.injectionProperties.injectorType = "MULTI"
          \/ d.injectionProperties.controlMode \in {"GRUP", "CMODE_UNDEFINED"}
    \/ /\ d.isProducer
       /\ d.productionProperties.controlMode \in {"CRAT", "GRUP", "CMODE_UNDEFINED"}

\* C10: beginEpisode fails fatally, and never returns normally, whenever a
\* well the manager knows is in the interval as an injector of phase MULTI,
\* an injector under GRUP or an undefined control, or a producer under
\* CRAT, GRUP or an undefined control.
C10_UnsupportedIsFatal ==
    (/\ BeginEpisodeCalled
     /\ \E n \in KnownWells(scheduleWells) : Unsupported(scheduleWells[n]))
        => failure # NoFailure

\* beginEpisode failed on a producer under combined-rate control
C10_Witness ==
    /\ BeginEpisodeCalled
    /\ failure.kind = "linearly_combined_rates"
    /\ \E n \in KnownWells(scheduleWells) :
           /\ scheduleWells[n].isProducer
           /\ scheduleWells[n].productionProperties.controlMode = "CRAT"

\* what the controls of a well amount to: the control mode, the weights of
\* the phases and the rate and pressure targets
ControlState(w) ==
    [controlMode |-> w.controlMode,
     volumetricWeights |-> w.volumetricWeights,
     maximumSurfaceRate |-> w.maximumSurfaceRate,
     maximumReservoirRate |-> w.maximumReservoirRate,
     targetBottomHolePressure |-> w.targetBottomHolePressure,
     targetTubingHeadPressure |-> w.targetTubingHeadPressure]

\* the controls the declaration gives a well that no earlier episode has
\* touched: the well as a run has it that meets the declaration at step 0
ControlsOfDeclarationAlone(d) ==
    ControlState(ResolveWell(ndebug, NewWell(d.name), d).well)

\* C11: after beginEpisode returns at interval k, the control mode, the
\* weights and the rate and pressure targets of every well of the interval
\* are determined by its declaration at k alone: they are the ones of any
\* other run with that declaration at k, whatever the earlier episodes were.
C11_ControlsFromDeclarationAlone ==
    BeginEpisodeReturned =>
        \A n \in KnownWells(scheduleWells) :
            LET d == scheduleWells[n]
            IN  ControlState(WellOf(d)) = ControlsOfDeclarationAlone(d)

\* the wells that own a DOF
Owners(globalDofIdx) ==
    {w \in DOMAIN wells_ : globalDofIdx \in Range(wells_[w].dofs)}

\* every order in which the wells can be evaluated
WellOrders(ws) ==
    {order \in [1..Len(ws) -> 0..(Len(ws) - 1)] :
        \A a, b \in 1..Len(ws) : a # b => order[a] # order[b]}

RatesComputed == lastCall.op = "computeTotalRatesForDof"

\* C12: computeTotalRatesForDof returns the zero rate vector for a DOF no
\* well owns and the contribution of the well for a DOF exactly that well
\* owns; evaluating the wells in any other order gives the same result, and
\* so does any other value of the accumulator before the call.
C12_TotalRatesOfDof ==
    RatesComputed =>
        LET globalDofIdx == q.globalDofIdx
        IN  /\ Owners(globalDofIdx) = {} => q.value = ZeroRate
            /\ \A w \in DOMAIN wells_ :
                   Owners(globalDofIdx) = {w} =>
                       q.value = Well_computeTotalRatesForDof(wells_[w], w - 1,
                                                              ZeroRate, globalDofIdx)
            /\ \A order \in WellOrders(wells_) :
                   SumWellRates(wells_, order, globalDofIdx, 1, ZeroRate) = q.value
            /\ \A qBefore \in StaleRates :
                   computeTotalRatesForDofResult(wells_, qBefore, globalDofIdx) = q.value

\* the rates of a DOF of the second of two wells were computed into an
\* accumulator that held other rates
C12_Witness ==
    /\ RatesComputed
    /\ q.before # ZeroRate
    /\ numWells(wells_) = 2
    /\ Owners(q.globalDofIdx) = {2}
    /\ q.value = RateVector(2, q.globalDofIdx + 1, 0 - 1)

\* the rates of a DOF no well owns were computed, with wells that own others
C12_WitnessNoOwner ==
    /\ RatesComputed
    /\ q.before # ZeroRate
    /\ Owners(q.globalDofIdx) = {}
    /\ \E w \in DOMAIN wells_ : wells_[w].dofs # <<>>
    /\ q.value = ZeroRate

\* the wells a registry of auxiliary modules holds
Registered(aux) == {w \in DOMAIN aux : aux[w] > 0}

\* a manager that init() has just set up calls beginEpisode for the interval
FreshBeginEpisode(wasRestarted) ==
    beginEpisodeResult(ndebug, [n \in DOMAIN allDeckWells |-> NewWell(allDeckWells[n])],
                       wellNameToIndex_, [w \in {} |-> 0], scheduleWells,
                       schedulePrevWells, episodeIdx, interior, wasRestarted)

\* the association and the registered wells are those of the fresh call
SameTopologyAs(fresh) ==
    /\ Association(wells_) = Association(fresh.wells)
    /\ Registered(auxiliaryModules) = Registered(fresh.aux)

Deserialized == lastCall.op = "deserialize" /\ failure = NoFailure

\* C13 as stated: after deserialize at interval k the DOF-to-well
\* association and the registered wells are those a call beginEpisode(k)
\* leaves on a manager that was just initialised, whatever they were before.
C13_RoundTripAsFreshCall ==
    Deserialized => SameTopologyAs(FreshBeginEpisode(FALSE))

\* C13 amended: after deserialize at interval k the association and the
\* registered wells are those a call of beginEpisode at k that rebuilds the
\* topology leaves on a manager that was just initialised: a call with
\* wasRestarted, and a call without it where k is 0 or the detector reports
\* a change.
C13_RoundTripAsFreshRebuild ==
    Deserialized =>
        /\ SameTopologyAs(FreshBeginEpisode(TRUE))
        /\ FreshBeginEpisode(FALSE).rebuilt => SameTopologyAs(FreshBeginEpisode(FALSE))

\* deserialize after step 0 replaced an association: a well owns a DOF now,
\* and the detector reports no change of the topology
C13_Witness ==
    /\ Deserialized
    /\ episodeIdx > 0
    /\ lastCall.rebuilt
    /\ \E w \in DOMAIN wells_ : wells_[w].dofs # <<>>
    /\ ~wellTopologyChanged_(scheduleWells, schedulePrevWells, episodeIdx)
    /\ \E name \in WellNames :
           WellCoords(schedulePrevWells, name) # WellCoords(scheduleWells, name)

\* the override of a DOF in a table of overrides, if there is one
Override(table, globalDofIdx) ==
    IF globalDofIdx \in DOMAIN table THEN <<table[globalDofIdx]>> ELSE <<>>

\* a call of beginEpisode whose updateWellParameters_ got to its loop over
\* the DOFs: the completions map was built and the reference depths were set
ParametersStep ==
    /\ BeginEpisodeStep
    /\ failure'.kind \notin {"assert_duplicate_cell", "no_well_called"}

\* the overrides of the DOF when the loop gets to it: none after a rebuild
OverridesBefore(well, rebuilt) == IF rebuilt THEN Well_clear(well) ELSE well

\* what the loop does for one DOF of a completed cell
ParametersOfDof(globalDofIdx, compInfo) ==
    LET completion == compInfo.completion
        before == OverridesBefore(wells_[compInfo.well + 1], lastCall'.rebuilt)
        after == wells_'[compInfo.well + 1]
    IN  /\ IF completion.diameter.defined
           THEN /\ globalDofIdx \in DOMAIN after.radius
                /\ 2 * after.radius[globalDofIdx] = completion.diameter.value
           ELSE Override(after.radius, globalDofIdx)
                    = Override(before.radius, globalDofIdx)
        /\ IF completion.ctf.class = "finite" /\ completion.ctf.value > 0
           THEN Override(after.ctf, globalDofIdx) = <<completion.ctf.value>>
           ELSE Override(after.ctf, globalDofIdx) = Override(before.ctf, globalDofIdx)

\* C14: for every DOF of a completed cell that updateWellParameters_ gets
\* to: a completion without a diameter leaves the radius of the DOF as it
\* was and raises nothing, one with a diameter sets the radius to half of
\* it; the transmissibility factor of the DOF is set, to the value of the
\* schedule, if and only if that value is finite and greater than zero, and
\* is left as it was for NaN, an infinity, zero and negative values.
C14_CompletionParameters ==
    [][ParametersStep =>
          LET wellCompletions ==
                  computeWellCompletionsMap_(ndebug, wellNameToIndex_, scheduleWells).map
          IN  \A globalDofIdx \in Range(InteriorDofs(interior)) :
                  cartesianCellId[globalDofIdx] \in DOMAIN wellCompletions =>
                      ParametersOfDof(globalDofIdx,
                                      wellCompletions[cartesianCellId[globalDofIdx]])]_vars

\* beginEpisode returned for a well of two completions: the first without
\* a diameter and with NaN as factor got no override, the second got its
\* radius and no factor, the factor being +inf
C14_Witness ==
    /\ BeginEpisodeReturned
    /\ lastCall.rebuilt
    /\ \E n \in KnownWells(scheduleWells) :
           LET d == scheduleWells[n]
               first == NumCells - 1 - cartIdx(d.completions[1])
               second == NumCells - 1 - cartIdx(d.completions[2])
           IN  /\ Len(d.completions) = 2
               /\ ~d.completions[1].diameter.defined
               /\ d.completions[2].diameter.defined
               /\ d.completions[2].ctf = Infinite(1)
               /\ Range(WellOf(d).dofs) = {first, second}
               /\ DOMAIN WellOf(d).radius = {second}
               /\ 2 * WellOf(d).radius[second] = d.completions[2].diameter.value
               /\ DOMAIN WellOf(d).ctf = {}

\* the declarations of a description for wells the manager knows
KnownOnly(description) ==
    SelectSeq(description, LAMBDA d : hasWell(wellNameToIndex_, d.name))

\* the call as it would be without the wells the manager does not know
BeginEpisodeOfKnownOnly ==
    beginEpisodeResult(ndebug, wells_, wellNameToIndex_, auxiliaryModules,
                       KnownOnly(scheduleWells), schedulePrevWells, episodeIdx,
                       interior, lastCall'.wasRestarted)

\* C15: beginEpisode skips the wells of the interval that init never
\* created, whatever they declare: it raises no error for them, and it
\* leaves the wells the manager knows as it would without them in the
\* schedule of the interval.
C15_UnknownWellsSkipped ==
    [][BeginEpisodeStep =>
          /\ failure' = BeginEpisodeOfKnownOnly.failure
          /\ wells_' = BeginEpisodeOfKnownOnly.wells]_vars

\* the index init() gave the well of a name: its place in the schedule
CreationIndex(wellName) ==
    (CHOOSE n \in DOMAIN allDeckWells : allDeckWells[n] = wellName) - 1

\* a step that is a call of wellIndex(name) or of well(name)
LookupStep == lastCall'.op \in {"wellIndex", "well"}

\* C16: wellIndex(name) returns the index the well got when it was created
\* if hasWell(name), and throws if not; well(name) returns the well of that
\* name, or throws, likewise.  A lookup that throws leaves the wells, the
\* map of the names and the registry as they were, and the exception goes
\* to the caller: the manager is not failed by it.
C16_LookupByName ==
    [][LookupStep =>
          /\ hasWell(wellNameToIndex_, lookup'.name) =>
                 /\ ~lookup'.thrown
                 /\ lookup'.index = CreationIndex(lookup'.name)
                 /\ lookup'.op = "well" => lookup'.wellName = lookup'.name
          /\ ~hasWell(wellNameToIndex_, lookup'.name) => lookup'.thrown
          /\ lookup'.thrown =>
                 UNCHANGED <<wells_, wellNameToIndex_, auxiliaryModules, pc, failure>>]_vars

\* well(name) threw for a well of the schedule that init did not create,
\* in an episode in which a well owns DOFs
C16_Witness ==
    /\ lookup.op = "well"
    /\ lookup.thrown
    /\ lookup.name \in DeckNames(scheduleWells)
    /\ pc = "inEpisode"
    /\ failure = NoFailure
    /\ \E w \in DOMAIN wells_ : wells_[w].dofs # <<>>

\* C17: once init() has run on a schedule of distinct names, numWells() is
\* the number of the names, the i-th name has the index i (from 0) and is
\* the name of the i-th well, and the map from the names to the indices is
\* one-to-one into 0 .. numWells()-1; this stays so through every later
\* call (the names of the schedule do not change).
C17_IndicesFixed ==
    pc # "constructed" =>
        /\ numWells(wells_) = Len(allDeckWells)
        /\ DOMAIN wellNameToIndex_ = Range(allDeckWells)
        /\ \A n \in DOMAIN allDeckWells :
               /\ wellIndex(wellNameToIndex_, allDeckWells[n]) = [ok |-> TRUE, index |-> n - 1]
               /\ wells_[n].name = allDeckWells[n]
        /\ \A a, b \in DOMAIN wellNameToIndex_ :
               a # b => wellNameToIndex_[a] # wellNameToIndex_[b]
        /\ \A a \in DOMAIN wellNameToIndex_ :
               wellNameToIndex_[a] \in 0..(numWells(wells_) - 1)

\* two wells have their indices in the second episode, after the calls of
\* a time step
C17_Witness ==
    /\ episodeIdx = 1
    /\ lastCall.op = "endTimeStep"
    /\ numWells(wells_) = 2
    /\ allDeckWells = <<"B", "A">>
    /\ wellNameToIndex_["B"] = 0
    /\ wellNameToIndex_["A"] = 1
    /\ \E w \in DOMAIN wells_ : wells_[w].dofs # <<>>

\* the places of the log of hooks at which a hook of a kind was called
CallsOf(hook) == {i \in DOMAIN hooks : hooks[i].hook = hook}
PreProcessCalls == CallsOf("beginIterationPreProcess")
AccumulateCalls_ == CallsOf("beginIterationAccumulate")
PostProcessCalls == CallsOf("beginIterationPostProcess")

WellIndices == 0..(numWells(wells_) - 1)

\* the calls at the places of S are one per well, in the order of the indices
OncePerWellInOrder(S) ==
    /\ \A w \in WellIndices : Cardinality({i \in S : hooks[i].well = w}) = 1
    /\ \A i, j \in S : i < j => hooks[i].well < hooks[j].well

\* C18: the calls of one beginIteration() are: the pre-process hook of every
\* well, once, in the order of the indices; then the accumulate hooks,
\* element by element over the interior elements and no others, for every
\* element every well once in the order of the indices; then the
\* post-process hook of every well, once, in the order of the indices.  No
\* accumulate hook comes before a pre-process hook or after a post-process
\* hook.
C18_PhasesDoNotInterleave ==
    lastCall.op = "beginIteration" =>
        /\ DOMAIN hooks = PreProcessCalls \cup AccumulateCalls_ \cup PostProcessCalls
        /\ \A i \in PreProcessCalls : \A j \in AccumulateCalls_ \cup PostProcessCalls : i < j
        /\ \A j \in AccumulateCalls_ : \A k \in PostProcessCalls : j < k
        /\ OncePerWellInOrder(PreProcessCalls)
        /\ OncePerWellInOrder(PostProcessCalls)
        /\ \A j \in AccumulateCalls_ : hooks[j].elem \in interior
        /\ \A e \in interior : OncePerWellInOrder({j \in AccumulateCalls_ : hooks[j].elem = e})
        /\ \A i, j \in AccumulateCalls_ : i < j => hooks[i].elem <= hooks[j].elem

\* beginIteration() ran for two wells on a grid with an element of the
\* overlap
C18_Witness ==
    /\ lastCall.op = "beginIteration"
    /\ numWells(wells_) = 2
    /\ interior # GlobalDofs
    /\ Len(hooks) = 2 + 2 * Cardinality(interior) + 2
    /\ hooks[3] = HookCall("beginIterationAccumulate", 0, 1)

\* the last call rebuilt the topology
Rebuilt == BeginEpisodeCalled /\ lastCall.rebuilt

\* C19: after a rebuild of the topology the wells registered with the model
\* as auxiliary modules are the wells that own a DOF of the local interior:
\* every one of them is registered once, and no well without a DOF is
\* registered, whether or not it was before.
C19_RegisteredAreOwners ==
    Rebuilt =>
        /\ DOMAIN auxiliaryModules = WellIndices
        /\ \A w \in DOMAIN wells_ :
               auxiliaryModules[w - 1] = IF wells_[w].dofs # <<>> THEN 1 ELSE 0

\* a rebuild after step 0 registered one of two wells of the schedule: the
\* other one, registered before, has its completion in an element of the
\* overlap now and is not registered any more
C19_Witness ==
    /\ Rebuilt
    /\ episodeIdx > 0
    /\ \E a, b \in DOMAIN wells_ :
           /\ auxiliaryModules[a - 1] = 1
           /\ wells_[a].dofs # <<>>
           /\ auxiliaryModules[b - 1] = 0
           /\ wells_[b].dofs = <<>>
           /\ WellCoords(scheduleWells, wells_[b].name) # {}
           /\ WellCoords(schedulePrevWells, wells_[b].name) = {<<0, 0, 0>>}

\* the fatal errors beginEpisode raises for a well
WellErrors ==
    {"control_mode_undefined", "multi_phase_injector", "well_groups",
     "linearly_combined_rates", "assert_injector_xor_producer",
     "assert_duplicate_cell"}

\* C20: every fatal error beginEpisode raises for a well (a control mode
\* that is undefined or not supported, multi-phase injection, group control,
\* combined rates, a well that is not exactly one of injector and producer,
\* a cell completed twice) has the name of that well in its message.
C20_FatalErrorsNameTheWell ==
    (BeginEpisodeCalled /\ failure.kind \in WellErrors) => failure.named

\* a step that is a call of beginEpisode which rebuilds the topology
RebuildStep == BeginEpisodeStep /\ lastCall'.rebuilt

\* C21: the registry of auxiliary modules of the model and the DOF-to-well
\* association change only in a rebuild of the topology by beginEpisode or
\* deserialize: once init() has run, every other step (beginTimeStep,
\* beginIteration, endIteration, endTimeStep, endEpisode,
\* computeTotalRatesForDof, serialize, the lookups, and a beginEpisode that
\* does not rebuild), in whatever order they come, leaves both as they were.
C21_TopologyChangesOnlyInRebuild ==
    [][(pc # "constructed" /\ ~RebuildStep) =>
          /\ auxiliaryModules' = auxiliaryModules
          /\ Association(wells_') = Association(wells_)]_vars

\* beginIteration() returned in the second episode with a well that owns
\* DOFs and is registered
C21_Witness ==
    /\ lastCall.op = "beginIteration"
    /\ episodeIdx = 1
    /\ hooks # <<>>
    /\ \E w \in DOMAIN wells_ :
           wells_[w].dofs # <<>> /\ auxiliaryModules[w - 1] = 1

\* the completions map beginEpisode builds for the interval
CurrentCompletionsMap ==
    computeWellCompletionsMap_(ndebug, wellNameToIndex_, scheduleWells).map

\* the map has the cell of the DOF, for the well of the index
MapsToWell(wellCompletions, globalDofIdx, wellIdx) ==
    /\ cartesianCellId[globalDofIdx] \in DOMAIN wellCompletions
    /\ wellCompletions[cartesianCellId[globalDofIdx]].well = wellIdx

\* C22: after beginEpisode returns at interval k, whatever the episodes
\* before it and with or without a restart, a well owns a DOF of the local
\* interior if and only if the completions map of interval k has the cell
\* of that DOF for that well.
C22_AssociationInSync ==
    BeginEpisodeReturned =>
        \A w \in DOMAIN wells_ : \A globalDofIdx \in Range(InteriorDofs(interior)) :
            globalDofIdx \in Range(wells_[w].dofs)
                <=> MapsToWell(CurrentCompletionsMap, globalDofIdx, w - 1)

\* the DOFs for which a well holds an override of the radius or of the
\* transmissibility factor
OverriddenDofs(w) == (DOMAIN w.radius) \cup (DOMAIN w.ctf)

\* C23: in every call of beginEpisode, with or without a rebuild of the
\* topology, updateWellParameters_ overrides the radius or the
\* transmissibility factor of a DOF only on a well that owns the DOF: no
\* well holds an override for a DOF that is not its own.
C23_OverridesOnlyForOwnedDofs ==
    BeginEpisodeCalled =>
        \A w \in DOMAIN wells_ : OverriddenDofs(wells_[w]) \subseteq Range(wells_[w].dofs)

\* how often a DOF is registered with a well
TimesRegistered(w, globalDofIdx) ==
    Cardinality({n \in DOMAIN w.dofs : w.dofs[n] = globalDofIdx})

\* C24: in every reachable state, whatever calls of init, beginEpisode and
\* deserialize led to it, every DOF is owned by at most one well, and it is
\* registered with that well at most once.
C24_AtMostOneOwner ==
    /\ \A a, b \in DOMAIN wells_ :
           a # b => Range(wells_[a].dofs) \cap Range(wells_[b].dofs) = {}
    /\ \A w \in DOMAIN wells_ : \A m, n \in DOMAIN wells_[w].dofs :
           m # n => wells_[w].dofs[m] # wells_[w].dofs[n]

\* after a rebuild in the second episode the DOF of cell (0,0,0), which well
\* A owned in the first, is owned by well B alone
C24_Witness ==
    /\ Rebuilt
    /\ episodeIdx = 1
    /\ numWells(wells_) = 2
    /\ <<0, 0, 0>> \in WellCoords(schedulePrevWells, "A")
    /\ <<0, 0, 0>> \in WellCoords(scheduleWells, "B")
    /\ Owners(NumCells - 1) = {wellNameToIndex_["B"] + 1}
    /\ TimesRegistered(wells_[wellNameToIndex_["B"] + 1], NumCells - 1) = 1

\* C25: for a producer declared under RESV, beginEpisode makes the declared
\* reservoir-volume rate the limit of the reservoir rate of the well, and
\* does not make it the limit of its surface rate (no declared surface rate
\* of the descriptions has the value of a reservoir-volume rate).
C25_ResvSetsReservoirRate ==
    BeginEpisodeReturned =>
        \A n \in KnownWells(scheduleWells) :
            LET d == scheduleWells[n]
            IN  (d.isProducer /\ ~d.isInjector
                     /\ d.productionProperties.controlMode = "RESV") =>
                    /\ WellOf(d).maximumReservoirRate = d.productionProperties.ResVRate
                    /\ WellOf(d).maximumSurfaceRate # d.productionProperties.ResVRate

====
